---- MODULE Spec2Model ----
(***************************************************************************)
(* The Primate VLIW packetizer (PrimatePacketizerList) and the packet      *)
(* post-processor (PrimatePacketPostProc) as a state machine over one      *)
(* basic block.                                                            *)
(*                                                                         *)
(* Slot indices are `unsigned` in the source.  They are held here in       *)
(* two's-complement form: the 32-bit value v is written v when v < 2^31    *)
(* and v - 2^32 otherwise, so (unsigned)-1 is -1, 0 - 1 wraps to -1 and    *)
(* (unsigned)-1 + 1 wraps to 0, exactly as in the source.  No slot of the  *)
(* model comes near 2^31, so plain integer + and - are the wrapping ones.  *)
(***************************************************************************)
EXTENDS Integers, Sequences, FiniteSets, TLC

\* ------------------------------------------------------------------ bounds
MaxBlockLen == 3
MaxLanes == 3

\* --------------------------------------------------------------- constants
X0 == 0
NoSlot == -1
EndItr == 0

Hazards == {"Data", "Output", "Order"}
Blocking == {"INPUT_READ", "INPUT_SEEK", "INPUT_EXTRACT"}
NoExtIns == {"OUTPUTHEADER", "OUTPUTMETA", "INPUT_EXTRACT", "MATCH"}

\* ------------------------------------------------------------ small helpers
Range(s) == {s[k] : k \in 1..Len(s)}

InSeq(x, s) == \E k \in 1..Len(s) : s[k] = x

MinOf(S) == CHOOSE x \in S : \A y \in S : x <= y

FirstIdx(s, P(_)) == MinOf({k \in 1..Len(s) : P(s[k])})

InsertAt(s, k, x) == SubSeq(s, 1, k - 1) \o <<x>> \o SubSeq(s, k, Len(s))

RemoveAt(s, k) == SubSeq(s, 1, k - 1) \o SubSeq(s, k + 1, Len(s))

\* ------------------------------------------------------------- instructions
\* A MachineInstr: opcode, the def register operands, the register use
\* operands in order with their kill flags, the kill flag of the first def,
\* the slot index and whether the scheduler made an SUnit for it.  areg
\* keeps the architectural registers the use operands named when the
\* instruction was created, lane the lane of the reservation the automaton
\* last made for the instruction (NoSlot while it has made none).
Instr(op, defs, uses, dkill, ukill, su) ==
    [op |-> op, defs |-> defs, uses |-> uses, areg |-> uses, dkill |-> dkill,
     ukill |-> ukill, slot |-> NoSlot, su |-> su, lane |-> NoSlot]

isBranch(i) == i.op = "BR"

\* The instructions a block is drawn from.
MenuBody ==
    { Instr("OP", <<1>>, <<2>>, FALSE, <<FALSE>>, TRUE),
      Instr("OP", <<3>>, <<1>>, FALSE, <<TRUE>>, TRUE),
      Instr("OP", <<2>>, <<2>>, TRUE, <<FALSE>>, TRUE),
      Instr("OP", <<X0>>, <<X0>>, FALSE, <<FALSE>>, TRUE),
      Instr("EXTRACT", <<2>>, <<3>>, FALSE, <<FALSE>>, TRUE),
      Instr("PseudoInsert", <<3>>, <<3, 1>>, FALSE, <<FALSE, FALSE>>, TRUE),
      Instr("INPUT_EXTRACT", <<1>>, <<3>>, FALSE, <<FALSE>>, TRUE) }

MenuBranch ==
    { Instr("BR", <<>>, <<1, 2>>, FALSE, <<FALSE, TRUE>>, TRUE),
      Instr("BR", <<>>, <<1, 1>>, FALSE, <<TRUE, TRUE>>, TRUE),
      Instr("BR", <<>>, <<3, X0>>, FALSE, <<FALSE, FALSE>>, TRUE),
      Instr("BR", <<>>, <<>>, FALSE, <<>>, TRUE) }

Menu == MenuBody \cup MenuBranch

\* Input blocks: terminators (branches) only at the end of the block.
Blocks ==
    UNION { { b \in [1..n -> Menu] :
                \A k \in 1..(n - 1) : isBranch(b[k]) => isBranch(b[k + 1]) }
            : n \in 0..MaxBlockLen }

\* --------------------------------------------------------- resource model
Classes == {"alu", "br", "ext", "ins", "io"}

ClassOf(op) ==
    CASE op \in {"OP", "ADDI"} -> "alu"
      [] op = "BR" -> "br"
      [] op = "EXTRACT" -> "ext"
      [] op \in {"PseudoInsert", "INSERT"} -> "ins"
      [] OTHER -> "io"

Uniform(n) == [N |-> n, units |-> [c \in Classes |-> 0..(n - 1)]]

LaneGroups ==
    [N |-> 9,
     units |-> [c \in Classes |->
                  CASE c = "ins" -> {0, 4}
                    [] c \in {"alu", "io"} -> {1, 5}
                    [] c = "ext" -> {2, 3, 6, 7}
                    [] OTHER -> {8}]]

ResourceModels == {Uniform(n) : n \in 1..MaxLanes} \cup {LaneGroups}

\* ------------------------------------------------------------------- state
VARIABLES
    rm,        \* the machine's resource model (lane count, units per class)
    MIs,       \* every MachineInstr ever created; an instruction is its index
    block,     \* the basic block: top-level items, each one unbundled
               \* instruction or one bundle (a finalized packet)
    CurrentPacketMIs,
    ResourceTracker,  \* the lanes granted so far, in reservation order
    packets,   \* member lists of the packets finalized so far
    cur,       \* PacketizeMIs' iterator: the candidate instruction
    pc,        \* where the pass stands
    ep,        \* the frame of the running endPacket call
    pp,        \* post-processor: number of top-level items already visited
    commitOK,  \* no reservation was made without room for it
    splitLog,  \* the re-splits so far: the branch pushed and its bypasses
    err        \* the fatal error raised, "" while there is none

vars == <<rm, MIs, block, CurrentPacketMIs, ResourceTracker, packets, cur,
          pc, ep, pp, commitOK, splitLog, err>>

\* ------------------------------------------------------- the basic block
Item(b, ids) == [b |-> b, ids |-> ids]

HasMI(blk, id) == \E k \in 1..Len(blk) : InSeq(id, blk[k].ids)

TopPos(blk, id) == CHOOSE k \in 1..Len(blk) : InSeq(id, blk[k].ids)

isBundled(blk, id) == blk[TopPos(blk, id)].b

\* removeFromBundle / removeFromParent
RemoveMI(blk, id) ==
    LET k == TopPos(blk, id)
        Keep(x) == x # id
    IN  IF blk[k].b
        THEN [blk EXCEPT ![k].ids = SelectSeq(@, Keep)]
        ELSE RemoveAt(blk, k)

\* MachineBasicBlock::insert(POS, MI): MI goes right before POS
InsertBeforeMI(blk, pos, id) ==
    LET k == TopPos(blk, pos)
        IsPos(x) == x = pos
    IN  IF blk[k].b
        THEN [blk EXCEPT ![k].ids = InsertAt(@, FirstIdx(@, IsPos), id)]
        ELSE InsertAt(blk, k, Item(FALSE, <<id>>))

\* MachineBasicBlock::insertAfter(POS, MI): MI goes right after POS
InsertAfterMI(blk, pos, id) ==
    LET k == TopPos(blk, pos)
        IsPos(x) == x = pos
    IN  IF blk[k].b
        THEN [blk EXCEPT ![k].ids = InsertAt(@, FirstIdx(@, IsPos) + 1, id)]
        ELSE InsertAt(blk, k + 1, Item(FALSE, <<id>>))

\* position of a MachineBasicBlock::iterator among the top-level items
PosOfItr(blk, it) == IF it = EndItr THEN Len(blk) + 1 ELSE TopPos(blk, it)

\* the iterator standing at top-level position p
ItrAt(blk, p) ==
    IF p > Len(blk) \/ p < 1 \/ blk[p].ids = <<>> THEN EndItr
    ELSE blk[p].ids[1]

\* ---------------------------------------------------- dependency graph
\* The kinds of the edges j -> i of the scheduling DAG (j earlier than i in
\* the block as it entered the packetizer).
DepKinds(M, j, i) ==
    IF ~(M[j].su /\ M[i].su /\ j < i) THEN {}
    ELSE
      (IF Range(M[j].defs) \cap Range(M[i].areg) # {} THEN {"Data"} ELSE {})
      \cup
      (IF Range(M[i].defs) \cap Range(M[j].areg) # {} THEN {"Anti"} ELSE {})
      \cup
      (IF Range(M[j].defs) \cap Range(M[i].defs) # {} THEN {"Output"} ELSE {})
      \cup
      (IF isBranch(M[j]) \/ (M[j].op \in Blocking /\ M[i].op \in Blocking)
       THEN {"Order"} ELSE {})

RECURSIVE SortedSeq(_)
SortedSeq(S) ==
    IF S = {} THEN <<>>
    ELSE LET m == MinOf(S) IN <<m>> \o SortedSeq(S \ {m})

\* SUnit::Preds / SUnit::Succs restricted to Data edges, as instruction lists
DataPreds(M, i) ==
    SortedSeq({j \in 1..Len(M) : "Data" \in DepKinds(M, j, i)})

DataSuccs(M, i) ==
    SortedSeq({j \in 1..Len(M) : "Data" \in DepKinds(M, i, j)})

\* ---------------------------------------------------- resource automaton
FreeUnits(tr, mi) == rm.units[ClassOf(mi.op)] \ Range(tr)

canReserveResources(tr, mi) == FreeUnits(tr, mi) # {}

reserveResources(tr, mi) ==
    IF canReserveResources(tr, mi)
    THEN Append(tr, MinOf(FreeUnits(tr, mi)))
    ELSE tr

\* the lane of the record reserveResources adds for mi, the lane on record
\* for mi when it adds none
GrantedLane(tr, mi) ==
    IF canReserveResources(tr, mi) THEN MinOf(FreeUnits(tr, mi)) ELSE mi.lane

clearResources == <<>>

\* countTrailingZeros(getUsedResources(idx)); ub is what a read past the
\* end of the reservation record yields
UsedSlot(tr, idx, ub) == IF idx < Len(tr) THEN tr[idx + 1] ELSE ub

PastEnd(tr, idx) == idx >= Len(tr)

\* -------------------------------------------------------------- legality
\* no functional unit is mapped to the instruction; every opcode of the
\* blocks modelled here has units in every resource model
ignorePseudoInstruction(mi) == rm.units[ClassOf(mi.op)] = {}

isLegalToPruneDependencies(M, i, j) == FALSE

\* isLegalToPacketizeTogether with the Data case left out of the switch
isLegalToPacketizeTogetherNoRAW(M, i, j) ==
    IF isBranch(M[i])
    THEN M[j].op \notin Blocking
    ELSE IF DepKinds(M, j, i) = {} THEN TRUE
         ELSE DepKinds(M, j, i) \cap {"Output", "Order"} = {}

\* isLegalToPacketizeTogether with the Anti case of the switch switched on
isLegalToPacketizeTogetherWAR(M, i, j) ==
    IF isBranch(M[i])
    THEN M[j].op \notin Blocking
    ELSE DepKinds(M, j, i) = {}

\* isLegalToPacketizeTogether without the switch over the member's opcode
isLegalToPacketizeTogetherNoBlocking(M, i, j) ==
    IF isBranch(M[i])
    THEN TRUE
    ELSE IF DepKinds(M, j, i) = {} THEN TRUE
         ELSE DepKinds(M, j, i) \cap Hazards = {}

isLegalToPacketizeTogether(M, i, j) ==
    IF isBranch(M[i])
    THEN M[j].op \notin Blocking
    ELSE IF DepKinds(M, j, i) = {} THEN TRUE
         ELSE DepKinds(M, j, i) \cap Hazards = {}

\* ------------------------------------------------------------------- Init
Init ==
    /\ rm \in ResourceModels
    /\ MIs \in Blocks
    /\ block = [k \in 1..Len(MIs) |-> Item(FALSE, <<k>>)]
    /\ CurrentPacketMIs = <<>>
    /\ ResourceTracker = <<>>
    /\ packets = <<>>
    /\ cur = IF Len(MIs) = 0 THEN EndItr ELSE 1
    /\ pc = "loop"
    /\ ep = [MI |-> EndItr, ret |-> "end", push |-> FALSE, gen |-> <<>>,
             pushes |-> 0]
    /\ pp = 0
    /\ commitOK = TRUE
    /\ splitLog = <<>>
    /\ err = ""

\* The working state an operation threads through its statements.
Work == [MIs |-> MIs, blk |-> block, pkt |-> CurrentPacketMIs,
         tr |-> ResourceTracker, ok |-> commitOK, fatal |-> "",
         gops |-> <<>>, ub |-> [abort |-> TRUE, v |-> 0], ubUsed |-> FALSE]

\* A failed assert and llvm_unreachable stop the pass (a build with
\* assertions); the first one raised is the one reported.
Fatal(S, msg) == IF S.fatal = "" THEN [S EXCEPT !.fatal = msg] ELSE S

\* ---------------------------------------------------------- addToPacket
addToPacket(S, i) ==
    IF ~canReserveResources(S.tr, S.MIs[i])
    THEN Fatal(S, "assert canReserveResources (addToPacket)")
    ELSE [S EXCEPT !.tr = reserveResources(S.tr, S.MIs[i]),
                   !.MIs[i].lane = GrantedLane(S.tr, S.MIs[i]),
                   !.pkt = Append(S.pkt, i)]

\* ----------------------------------------------------- tryToPullBitmanip
RECURSIVE PullLoop(_, _, _)
PullLoop(S, i, deps) ==
    IF deps = <<>> \/ S.fatal # "" THEN S
    ELSE
      LET d == Head(deps)
          moved == InsertBeforeMI(RemoveMI(S.blk, d), i, d)
      IN  IF InSeq(d, S.pkt) THEN PullLoop(S, i, Tail(deps))
          ELSE IF ~canReserveResources(S.tr, S.MIs[d])
          THEN Fatal([S EXCEPT !.blk = moved],
                     "assert canReserveResources (tryToPullBitmanip)")
          ELSE PullLoop([S EXCEPT !.blk = moved,
                                  !.tr = reserveResources(S.tr, S.MIs[d]),
                                  !.MIs[d].lane = GrantedLane(S.tr, S.MIs[d]),
                                  !.pkt = Append(S.pkt, d)],
                        i, Tail(deps))

\* tryToPullBitmanip pulling in every producer, lane-read pseudo-op or not
tryToPullBitmanipAnyProducer(S, i) ==
    IF S.MIs[i].op \in {"EXTRACT", "PseudoInsert"} \/ ~S.MIs[i].su THEN S
    ELSE
      LET IsIns(d) == S.MIs[d].op = "PseudoInsert"
          S1 == PullLoop(S, i, DataPreds(S.MIs, i))
      IN  PullLoop(S1, i, SelectSeq(DataSuccs(S.MIs, i), IsIns))

tryToPullBitmanip(S, i) ==
    IF S.MIs[i].op \in {"EXTRACT", "PseudoInsert"} \/ ~S.MIs[i].su THEN S
    ELSE
      LET IsExt(d) == S.MIs[d].op = "EXTRACT"
          IsIns(d) == S.MIs[d].op = "PseudoInsert"
          S1 == PullLoop(S, i, SelectSeq(DataPreds(S.MIs, i), IsExt))
      IN  PullLoop(S1, i, SelectSeq(DataSuccs(S.MIs, i), IsIns))

\* ------------------------------------------------------- insertBypassOps
\* ADDI reg, reg, 0
Bypass(reg) == Instr("ADDI", <<reg>>, <<reg>>, FALSE, <<FALSE>>, FALSE)

\* the loop of insertBypassOps with a producer search that finds nothing
RECURSIVE BypassLoopNoSearch(_, _, _)
BypassLoopNoSearch(A, br, k) ==
    IF k > Len(A.S.MIs[br].uses) \/ A.push THEN A
    ELSE
      LET reg == A.S.MIs[br].uses[k]
          id == Len(A.S.MIs) + 1
          built == [A.S EXCEPT !.MIs = Append(@, Bypass(reg)),
                               !.blk = InsertBeforeMI(@, br, id)]
      IN  IF ~canReserveResources(A.try, Bypass(reg))
          THEN [A EXCEPT !.S = built, !.gen = Append(@, id), !.push = TRUE]
          ELSE BypassLoopNoSearch(
                   [A EXCEPT !.S = built,
                             !.try = reserveResources(@, Bypass(reg)),
                             !.gen = Append(@, id)],
                   br, k + 1)

\* A.try is TryResourceTracker, A.gen is generated_bypass_instrs, A.push the
\* value returned; A.S carries the packetizer's own state through the call.
RECURSIVE BypassLoop(_, _, _)
BypassLoop(A, br, k) ==
    IF k > Len(A.S.MIs[br].uses) \/ A.push THEN A
    ELSE
      LET reg == A.S.MIs[br].uses[k]
          generated ==
              \E n \in 1..Len(A.S.pkt) :
                  LET o == A.S.pkt[n] IN
                    /\ o # br
                    /\ A.S.MIs[o].op # "EXTRACT"
                    /\ reg \in Range(A.S.MIs[o].defs)
          id == Len(A.S.MIs) + 1
          built == [A.S EXCEPT !.MIs = Append(@, Bypass(reg)),
                               !.blk = InsertBeforeMI(@, br, id)]
      IN  IF generated THEN BypassLoop(A, br, k + 1)
          ELSE IF ~canReserveResources(A.try, Bypass(reg))
          THEN [A EXCEPT !.S = built, !.gen = Append(@, id), !.push = TRUE]
          ELSE BypassLoop([A EXCEPT !.S = built,
                                    !.try = reserveResources(@, Bypass(reg)),
                                    !.gen = Append(@, id)],
                          br, k + 1)

\* insertBypassOps probing on the packetizer's own ResourceTracker
insertBypassOpsOnTracker(S, br) ==
    LET A == BypassLoop([S |-> S, try |-> S.tr, gen |-> <<>>, push |-> FALSE],
                        br, 1)
    IN  [A EXCEPT !.S.tr = A.try]

insertBypassOps(S, br) ==
    BypassLoop([S |-> S, try |-> S.tr, gen |-> <<>>, push |-> FALSE], br, 1)

\* ------------------------------------------------------------- endPacket
\* reserveResources called without a canReserveResources test before it
Commit(S, i) ==
    [S EXCEPT !.tr = reserveResources(S.tr, S.MIs[i]),
              !.MIs[i].lane = GrantedLane(S.tr, S.MIs[i]),
              !.ok = S.ok /\ canReserveResources(S.tr, S.MIs[i])]

\* the lane read back counted from 1
ReadSlotOneBased(S, idx) == UsedSlot(S.tr, idx, S.ub.v) + 1

\* getUsedResources(idx) read by the running operation
ReadSlot(S, idx) == UsedSlot(S.tr, idx, S.ub.v)

MarkRead(S, idx) ==
    IF ~PastEnd(S.tr, idx) THEN S
    ELSE IF S.ub.abort
         THEN Fatal([S EXCEPT !.ubUsed = TRUE],
                    "getUsedResources past the reservation record")
         ELSE [S EXCEPT !.ubUsed = TRUE]

\* lines 377-398: pop the branch, or commit the bypasses that fit
RECURSIVE CommitAll(_, _)
CommitAll(S, ids) ==
    IF ids = <<>> THEN S
    ELSE CommitAll([Commit(S, Head(ids)) EXCEPT !.pkt = Append(@, Head(ids))],
                   Tail(ids))

\* lines 429-455: relocate the EXTRACT predecessors of member m
RECURSIVE ExtractLoop(_, _, _, _, _)
ExtractLoop(S, m, slotIdx, offset, deps) ==
    IF deps = <<>> THEN S
    ELSE
      LET d == Head(deps)
          S1 == [S EXCEPT !.blk = InsertBeforeMI(RemoveMI(@, d), m, d),
                          !.gops = Append(@, d)]
          S2 == Commit(S1, d)
          S3 == IF ~isBranch(S.MIs[m])
                THEN [S2 EXCEPT !.MIs[d].slot = slotIdx + offset]
                ELSE S2
      IN  IF InSeq(d, S.pkt) THEN ExtractLoop(S, m, slotIdx, offset, Tail(deps))
          ELSE ExtractLoop(S3, m, slotIdx, offset + 1, Tail(deps))

\* lines 456-481: relocate the PseudoInsert successors of member m
RECURSIVE InsertLoop(_, _, _, _)
InsertLoop(S, m, slotIdx, deps) ==
    IF deps = <<>> \/ S.fatal # "" THEN S
    ELSE
      LET d == Head(deps)
          S1 == [S EXCEPT !.blk = InsertAfterMI(RemoveMI(@, d), m, d),
                          !.gops = Append(@, d)]
          S2 == Commit(S1, d)
      IN  IF InSeq(d, S.pkt) THEN InsertLoop(S, m, slotIdx, Tail(deps))
          ELSE IF isBranch(S.MIs[m])
          THEN Fatal(S2, "branch produces a value for and insert?")
          ELSE InsertLoop([S2 EXCEPT !.MIs[d].slot = slotIdx - 1],
                          m, slotIdx, Tail(deps))

\* lines 483-514: a member EXTRACT without a consumer in the block
LiveOutExtract(S, m) ==
    LET id == Len(S.MIs) + 1
        byp == Bypass(S.MIs[m].defs[1])
        S1 == [S EXCEPT !.MIs = Append(@, byp),
                        !.blk = InsertBeforeMI(@, m, id)]
        S2 == [S1 EXCEPT !.tr = reserveResources(@, byp),
                         !.MIs[id].lane = GrantedLane(S.tr, byp)]
        idx == Len(S.pkt) + Len(S.gops)
        S3 == MarkRead(S2, idx)
    IN  IF ~S.MIs[m].su \/ DataSuccs(S.MIs, m) # <<>> THEN S
        ELSE IF ~canReserveResources(S.tr, byp)
        THEN Fatal(S1, "unsure how to packetize this extract")
        ELSE [S3 EXCEPT !.gops = Append(@, id),
                        !.MIs[id].slot = ReadSlot(S2, idx)]

\* lines 400-515: one round of the loop over CurrentPacketMIs, member k
SlotMember(S, k) ==
    LET m == S.pkt[k]
        S0 == MarkRead(S, k - 1)
        slotIdx == ReadSlot(S, k - 1)
        S1 == [S0 EXCEPT !.MIs[m].slot = slotIdx]
        IsExt(d) == S.MIs[d].op = "EXTRACT"
        IsIns(d) == S.MIs[d].op = "PseudoInsert"
        S2 == ExtractLoop(S1, m, slotIdx, 1,
                          SelectSeq(DataPreds(S.MIs, m), IsExt))
    IN  IF S0.fatal # "" THEN S0
        ELSE IF S.MIs[m].op \notin {"EXTRACT", "PseudoInsert"}
        THEN IF ~S.MIs[m].su THEN S1
             ELSE InsertLoop(S2, m, slotIdx,
                             SelectSeq(DataSuccs(S.MIs, m), IsIns))
        ELSE IF S.MIs[m].op = "EXTRACT" THEN LiveOutExtract(S0, m)
        ELSE S0

RECURSIVE SlotLoop(_, _)
SlotLoop(S, k) ==
    IF k > Len(S.pkt) \/ S.fatal # "" THEN S
    ELSE SlotLoop(SlotMember(S, k), k + 1)

\* the fallback placing the insert one above the lane read, as the op slot
FallbackMemberOpSlot(S, i) ==
    LET m == S.pkt[i + 1]
        otherIns == \E n \in 1..Len(S.pkt) :
                       S.MIs[S.pkt[n]].op = "PseudoInsert" /\ S.pkt[n] # m
        S0 == MarkRead(S, i)
        slotIdx == ReadSlot(S, i)
        opSlot == slotIdx + 1
        op == \E n \in 1..Len(S.pkt) : S.MIs[S.pkt[n]].slot = opSlot
    IN  IF ~(S.MIs[m].op = "PseudoInsert" /\ S.MIs[m].slot = NoSlot) THEN S
        ELSE IF otherIns THEN S
        ELSE IF S0.fatal # "" THEN S0
        ELSE IF ~op THEN [S0 EXCEPT !.MIs[m].slot = opSlot]
        ELSE [S0 EXCEPT !.MIs[m].slot = slotIdx + 4]

\* lines 518-544: a PseudoInsert member still without a slot
FallbackMember(S, i) ==
    LET m == S.pkt[i + 1]
        otherIns == \E n \in 1..Len(S.pkt) :
                       S.MIs[S.pkt[n]].op = "PseudoInsert" /\ S.pkt[n] # m
        S0 == MarkRead(S, i)
        slotIdx == ReadSlot(S, i)
        opSlot == slotIdx + 1
        op == \E n \in 1..Len(S.pkt) : S.MIs[S.pkt[n]].slot = opSlot
    IN  IF ~(S.MIs[m].op = "PseudoInsert" /\ S.MIs[m].slot = NoSlot) THEN S
        ELSE IF otherIns THEN S
        ELSE IF S0.fatal # "" THEN S0
        ELSE IF ~op THEN [S0 EXCEPT !.MIs[m].slot = slotIdx]
        ELSE [S0 EXCEPT !.MIs[m].slot = slotIdx + 4]

RECURSIVE FallbackLoop(_, _)
FallbackLoop(S, i) ==
    IF i >= Len(S.pkt) \/ S.fatal # "" THEN S
    ELSE FallbackLoop(FallbackMember(S, i), i + 1)

\* lines 548-590: every register operand of a member branch has a producer
HasProducer(M, pkt, m, reg) ==
    \E n \in 1..Len(pkt) : pkt[n] # m /\ reg \in Range(M[pkt[n]].defs)

BranchFixup(S) ==
    IF S.fatal # "" THEN S
    ELSE IF \E n \in 1..Len(S.pkt) :
          /\ isBranch(S.MIs[S.pkt[n]])
          /\ \E k \in 1..Len(S.MIs[S.pkt[n]].uses) :
                /\ S.MIs[S.pkt[n]].uses[k] # X0
                /\ ~HasProducer(S.MIs, S.pkt, S.pkt[n], S.MIs[S.pkt[n]].uses[k])
    THEN Fatal(S, "No generating instr found")
    ELSE S

\* getFirstPacketMI: the first instruction the block's iterator visits that
\* is in CurrentPacketMIs (0 when it visits none)
getFirstPacketMI(blk, pkt) ==
    LET hits == {k \in 1..Len(blk) :
                   ~blk[k].b /\ InSeq(blk[k].ids[1], pkt)}
    IN  IF hits = {} THEN EndItr ELSE blk[MinOf(hits)].ids[1]

RECURSIVE Flatten(_, _, _)
Flatten(blk, a, b) ==
    IF a > b THEN <<>> ELSE blk[a].ids \o Flatten(blk, a + 1, b)

\* finalizeBundle(MBB, first, last): [first, last) becomes one bundle
finalizeBundle(S, first, last) ==
    LET a == TopPos(S.blk, first)
        b == PosOfItr(S.blk, last) - 1
    IN  IF a > b THEN Fatal(S, "finalizeBundle: Empty bundle?")
        ELSE IF \E k \in a..b : S.blk[k].b
        THEN Fatal(S, "finalizeBundle: already bundled")
        ELSE [S EXCEPT !.blk = SubSeq(@, 1, a - 1)
                                 \o <<Item(TRUE, Flatten(S.blk, a, b))>>
                                 \o SubSeq(@, b + 1, Len(@))]

\* only CurrentPacketMIs.clear(), the reservations stay
ClearPacketKeepReservations(S) == [S EXCEPT !.pkt = <<>>]

\* lines 615-616: CurrentPacketMIs.clear(); ResourceTracker->clearResources()
ClearPacket(S) == [S EXCEPT !.pkt = <<>>, !.tr = clearResources]

\* the pushed branch staying in CurrentPacketMIs (no pop_back)
PopOrCommitKeepBranch(S, push, gen) ==
    IF push THEN S ELSE CommitAll(S, gen)

\* lines 379-398: pop the pushed branch, or commit the bypasses that fit
PopOrCommit(S, push, gen) ==
    IF push THEN [S EXCEPT !.pkt = SubSeq(@, 1, Len(@) - 1)]
    ELSE CommitAll(S, gen)

\* line 516: generatedOps join CurrentPacketMIs
AddGenerated(S) == [S EXCEPT !.pkt = @ \o S.gops]

\* the bundling step going on without a word when the packet is empty
BundleSilentOnEmpty(S, push, MI) ==
    IF S.fatal # "" THEN S
    ELSE IF Len(S.pkt) < 1 THEN S
    ELSE IF getFirstPacketMI(S.blk, S.pkt) = EndItr
    THEN Fatal(S, "no packet instrs in the basic block?")
    ELSE finalizeBundle(S, getFirstPacketMI(S.blk, S.pkt), MI)

\* lines 605-614: the empty-packet checks and the bundling of [first, MI)
Bundle(S, push, MI) ==
    IF S.fatal # "" THEN S
    ELSE IF Len(S.pkt) < 1
    THEN Fatal(S, IF push THEN "empty packet due to pushing a branch"
                  ELSE "attempted to packetize an empty packet")
    ELSE IF getFirstPacketMI(S.blk, S.pkt) = EndItr
    THEN Fatal(S, "no packet instrs in the basic block?")
    ELSE finalizeBundle(S, getFirstPacketMI(S.blk, S.pkt), MI)

\* lines 379-614 after insertBypassOps has answered: push says whether the
\* branch goes to the next packet, gen holds the bypasses it built, MI is
\* the end-of-packet iterator (stepped back once when the branch is pushed)
Finalize(S, push, gen, MI) ==
    Bundle(BranchFixup(FallbackLoop(AddGenerated(
               SlotLoop(PopOrCommit(S, push, gen), 1)), 0)),
           push,
           IF push THEN ItrAt(S.blk, PosOfItr(S.blk, MI) - 1) ELSE MI)

\* what a read past the end of the reservation record can yield: the
\* bounds check aborts, or the load returns some mask
UBOutcomes ==
    {[abort |-> TRUE, v |-> 0]}
    \cup {[abort |-> FALSE, v |-> l] : l \in (0..(rm.N - 1)) \cup {32}}

\* --------------------------------------------------------------- actions
\* the state a crashed or finished operation leaves behind
Store(S) ==
    /\ MIs' = S.MIs
    /\ block' = S.blk
    /\ CurrentPacketMIs' = S.pkt
    /\ ResourceTracker' = S.tr
    /\ commitOK' = S.ok

Crash(S) ==
    /\ Store(S)
    /\ pc' = "fatal"
    /\ err' = S.fatal
    /\ UNCHANGED <<rm, packets, cur, ep, pp, splitLog>>

\* PacketizeMIs asks for endPacket before it adds the candidate
NeedClose ==
    \/ ~canReserveResources(ResourceTracker, MIs[cur])
    \/ \E k \in 1..Len(CurrentPacketMIs) :
          /\ ~isLegalToPacketizeTogether(MIs, cur, CurrentPacketMIs[k])
          /\ ~isLegalToPruneDependencies(MIs, cur, CurrentPacketMIs[k])

\* addToPacket(MI), the pull-in when the loop runs it, ++BeginItr
AddAndAdvance(doPull) ==
    LET S1 == addToPacket(Work, cur)
        S2 == IF doPull /\ S1.fatal = "" THEN tryToPullBitmanip(S1, cur)
              ELSE S1
    IN  IF S2.fatal # "" THEN Crash(S2)
        ELSE /\ Store(S2)
             /\ cur' = ItrAt(S2.blk, TopPos(S2.blk, cur) + 1)
             /\ pc' = "loop"
             /\ UNCHANGED <<rm, packets, ep, pp, splitLog, err>>

PacketizeAdd ==
    /\ pc = "loop" /\ cur # EndItr
    /\ ~ignorePseudoInstruction(MIs[cur])
    /\ ~NeedClose
    /\ \E doPull \in BOOLEAN : AddAndAdvance(doPull)

PacketizeClose ==
    /\ pc = "loop" /\ cur # EndItr
    /\ ~ignorePseudoInstruction(MIs[cur])
    /\ NeedClose
    /\ pc' = "endPacket"
    /\ ep' = [MI |-> cur, ret |-> "add", push |-> FALSE, gen |-> <<>>,
              pushes |-> 0]
    /\ UNCHANGED <<rm, MIs, block, CurrentPacketMIs, ResourceTracker, packets,
                   cur, pp, commitOK, splitLog, err>>

\* "End any packet left behind."
PacketizeEnd ==
    /\ pc = "loop" /\ cur = EndItr
    /\ pc' = "endPacket"
    /\ ep' = [MI |-> EndItr, ret |-> "end", push |-> FALSE, gen |-> <<>>,
              pushes |-> 0]
    /\ UNCHANGED <<rm, MIs, block, CurrentPacketMIs, ResourceTracker, packets,
                   cur, pp, commitOK, splitLog, err>>

\* endPacket, lines 367-371
EndPacketEmpty ==
    /\ pc = "endPacket" /\ CurrentPacketMIs = <<>>
    /\ ResourceTracker' = clearResources
    /\ pc' = "ret"
    /\ UNCHANGED <<rm, MIs, block, CurrentPacketMIs, packets, cur, ep, pp,
                   commitOK, splitLog, err>>

\* endPacket, lines 373-378: the packet closes on a branch
EndPacketProbe ==
    /\ pc = "endPacket" /\ CurrentPacketMIs # <<>>
    /\ isBranch(MIs[CurrentPacketMIs[Len(CurrentPacketMIs)]])
    /\ LET A == insertBypassOps(Work, CurrentPacketMIs[Len(CurrentPacketMIs)])
       IN  /\ Store(A.S)
           /\ ep' = [ep EXCEPT !.push = A.push, !.gen = A.gen]
    /\ pc' = "finalize"
    /\ UNCHANGED <<rm, packets, cur, pp, splitLog, err>>

\* the read past the reservation record answers ub
FinalizeRun(ub) ==
    Finalize([Work EXCEPT !.ub = ub], pc = "finalize" /\ ep.push,
             IF pc = "finalize" THEN ep.gen ELSE <<>>, ep.MI)

\* lines 615-635: clear; a pushed branch seeds the next packet with its
\* bypasses and endPacket runs again
Closed(R, push, gen, br) ==
    IF R.fatal # "" THEN Crash(R)
    ELSE /\ packets' = Append(packets, R.pkt)
         /\ err' = err
         /\ UNCHANGED <<rm, cur, pp>>
         /\ IF push
            THEN /\ Store(CommitAll(ClearPacket(R), gen \o <<br>>))
                 /\ pc' = "endPacket"
                 /\ ep' = [ep EXCEPT !.push = FALSE, !.gen = <<>>,
                                     !.pushes = @ + 1]
                 /\ splitLog' = Append(splitLog,
                                       [br |-> br, gen |-> gen,
                                        first |-> Len(packets) + 1])
            ELSE /\ Store(ClearPacket(R))
                 /\ pc' = "ret"
                 /\ ep' = [ep EXCEPT !.push = FALSE, !.gen = <<>>]
                 /\ splitLog' = splitLog

\* endPacket, lines 379-637
EndPacketFinalize ==
    /\ \/ pc = "finalize"
       \/ /\ pc = "endPacket" /\ CurrentPacketMIs # <<>>
          /\ ~isBranch(MIs[CurrentPacketMIs[Len(CurrentPacketMIs)]])
    /\ \E ub \in UBOutcomes :
          /\ ub.abort \/ FinalizeRun([abort |-> TRUE, v |-> 0]).ubUsed
          /\ Closed(FinalizeRun(ub), pc = "finalize" /\ ep.push,
                    IF pc = "finalize" THEN ep.gen ELSE <<>>,
                    CurrentPacketMIs[Len(CurrentPacketMIs)])

\* back in PacketizeMIs after endPacket: "Add MI to the current packet."
ResumeAdd ==
    /\ pc = "ret" /\ ep.ret = "add"
    /\ \E doPull \in BOOLEAN : AddAndAdvance(doPull)

\* PacketizeMIs is over; the post-processor runs next
ResumeEnd ==
    /\ pc = "ret" /\ ep.ret = "end"
    /\ pc' = "postproc"
    /\ UNCHANGED <<rm, MIs, block, CurrentPacketMIs, ResourceTracker, packets,
                   cur, ep, pp, commitOK, splitLog, err>>

\* ------------------------------------------------ PrimatePacketPostProc
\* The working state of one round of runOnMachineFunction's loop over the
\* bundles: the bundle's instructions in block order, the three work lists
\* and the packets created behind the bundle.
PPWork(ids) ==
    LET IsExt(i) == MIs[i].op = "EXTRACT"
        IsIns(i) == MIs[i].op = "PseudoInsert"
        IsOp(i) == MIs[i].op \notin {"EXTRACT", "PseudoInsert"}
    IN  [MIs |-> MIs, ids |-> ids, exts |-> SelectSeq(ids, IsExt),
         ins |-> SelectSeq(ids, IsIns), ops |-> SelectSeq(ids, IsOp),
         newB |-> <<>>, fatal |-> ""]

\* std::find_if: the first element of list satisfying Test, 0 for end()
FindIf(list, Test(_)) ==
    IF \E k \in 1..Len(list) : Test(list[k])
    THEN list[FirstIdx(list, Test)]
    ELSE 0

\* builder.insert(MI->getIterator(), new)
BundleInsert(ids, mi, new) ==
    LET IsPos(x) == x = mi IN InsertAt(ids, FirstIdx(ids, IsPos), new)

\* addOpForInsert's loop body without the assert on the producer's slot
OpForInsertOperandAnySlot(P, mi, i) ==
    LET reg == P.MIs[mi].uses[i]
        Defines(a) == reg \in Range(P.MIs[a].defs)
        found == FindIf(P.ops, Defines)
        id == Len(P.MIs) + 1
        byp == [Bypass(reg) EXCEPT !.slot = P.MIs[mi].slot + 1]
    IN  IF found # 0
        THEN P
        ELSE [P EXCEPT !.MIs = Append(@, byp),
                       !.ids = BundleInsert(@, mi, id),
                       !.ops = Append(@, id)]

\* addOpForInsert, the loop body for operand i of MI (operand i is the
\* (i)th use operand: operand 0 is the def)
OpForInsertOperand(P, mi, i) ==
    LET reg == P.MIs[mi].uses[i]
        Defines(a) == reg \in Range(P.MIs[a].defs)
        found == FindIf(P.ops, Defines)
        id == Len(P.MIs) + 1
        byp == [Bypass(reg) EXCEPT !.slot = P.MIs[mi].slot + 1]
    IN  IF found # 0
        THEN IF P.MIs[found].slot = P.MIs[mi].slot + 1 THEN P
             ELSE Fatal(P, "found the op but in the wrong slot...")
        ELSE [P EXCEPT !.MIs = Append(@, byp),
                       !.ids = BundleInsert(@, mi, id),
                       !.ops = Append(@, id)]

RECURSIVE OpForInsertLoop(_, _, _)
OpForInsertLoop(P, mi, i) ==
    IF i > Len(P.MIs[mi].uses) \/ P.fatal # "" THEN P
    ELSE OpForInsertLoop(OpForInsertOperand(P, mi, i), mi, i + 1)

addOpForInsert(P, mi) ==
    IF P.MIs[mi].defs[1] # P.MIs[mi].uses[1]
    THEN Fatal(P, "insert reads and writes a different register.")
    ELSE OpForInsertLoop(P, mi, 2)

\* the slot search shared by addExtractForOp and fixDanglingExt: base + 1,
\* base + 2 when an extract already holds base + 1, NoSlot - 1 standing for
\* "no slot for required extract..."
ExtractSlot(P, base) ==
    LET Taken(s) == \E k \in 1..Len(P.exts) : P.MIs[P.exts[k]].slot = s
        first == base + 1
        second == IF Taken(first) THEN first + 1 ELSE first
    IN  IF Taken(second) THEN NoSlot - 1 ELSE second

\* addExtractForOp, the loop body for use operand k of MI
ExtractForOperand(P, mi, k) ==
    LET reg == P.MIs[mi].uses[k]
        Gen(a) == /\ \/ P.MIs[a].slot = P.MIs[mi].slot + 1
                     \/ P.MIs[a].slot = P.MIs[mi].slot + 2
                  /\ reg \in Range(P.MIs[a].defs)
        found == FindIf(P.exts, Gen)
        slot == ExtractSlot(P, P.MIs[mi].slot)
        id == Len(P.MIs) + 1
        ext == [Instr("EXTRACT", <<reg>>, <<reg>>, FALSE, <<FALSE>>, FALSE)
                  EXCEPT !.slot = slot]
    IN  IF found = 0
        THEN IF slot = NoSlot - 1
             THEN Fatal(P, "no slot for required extract...")
             ELSE [P EXCEPT !.MIs = Append(@, ext),
                            !.exts = Append(@, id),
                            !.ids = BundleInsert(@, mi, id)]
        ELSE IF P.MIs[found].slot # NoSlot THEN P
        ELSE IF slot = NoSlot - 1
             THEN Fatal(P, "no slot for required extract...")
             ELSE [P EXCEPT !.MIs[found].slot = slot]

RECURSIVE addExtractForOp(_, _, _)
addExtractForOp(P, mi, k) ==
    IF k > Len(P.MIs[mi].uses) \/ P.fatal # "" THEN P
    ELSE addExtractForOp(ExtractForOperand(P, mi, k), mi, k + 1)

fixDanglingExt(P, mi) ==
    LET reg == P.MIs[mi].defs[1]
        Uses(a) == reg \in Range(P.MIs[a].uses)
        found == FindIf(P.ops, Uses)
        slot == ExtractSlot(P, P.MIs[found].slot)
    IN  IF found = 0 THEN Fatal(P, "ext not slotted, or bundled with dep")
        ELSE IF slot = NoSlot - 1
        THEN Fatal(P, "no slot for required extract...")
        ELSE [P EXCEPT !.MIs[mi].slot = slot]

\* the packet of three with a lane-write that does not mark its operands
\* killed
NewPacketNoKill(P, reg, src, slot) ==
    LET n == Len(P.MIs)
        ext == [Instr("EXTRACT", <<reg>>, <<src>>, FALSE, <<FALSE>>, FALSE)
                  EXCEPT !.slot = slot + 2]
        addi == [Bypass(reg) EXCEPT !.slot = slot + 1]
        ins == [Instr("PseudoInsert", <<reg>>, <<reg, reg>>, FALSE,
                      <<FALSE, FALSE>>, FALSE) EXCEPT !.slot = slot]
    IN  [P EXCEPT !.MIs = @ \o <<ext, addi, ins>>,
                  !.newB = <<Item(TRUE, <<n + 3, n + 2, n + 1>>)>> \o @]

\* lines 418-451: the packet of three built behind the bundle
NewPacket(P, reg, src, slot) ==
    LET n == Len(P.MIs)
        ext == [Instr("EXTRACT", <<reg>>, <<src>>, FALSE, <<FALSE>>, FALSE)
                  EXCEPT !.slot = slot + 2]
        addi == [Bypass(reg) EXCEPT !.slot = slot + 1]
        ins == [Instr("PseudoInsert", <<reg>>, <<reg, reg>>, FALSE,
                      <<TRUE, TRUE>>, FALSE) EXCEPT !.slot = slot]
    IN  [P EXCEPT !.MIs = @ \o <<ext, addi, ins>>,
                  !.newB = <<Item(TRUE, <<n + 3, n + 2, n + 1>>)>> \o @]

\* fixMaterializedReg that leaves a result nobody consumes alone
fixMaterializedRegConsumedOnly(P, mi) ==
    LET reg == P.MIs[mi].defs[1]
        Uses(a) == reg \in Range(P.MIs[a].uses)
        BrUses(a) == isBranch(P.MIs[a]) /\ Uses(a)
        foundIns == FindIf(P.ins, Uses)
        foundBr == FindIf(P.ops, BrUses)
        cons == IF foundIns # 0 THEN foundIns ELSE foundBr
        IsReg(k) == P.MIs[cons].uses[k] = reg
        consKill == P.MIs[cons].ukill[MinOf({k \in 1..Len(P.MIs[cons].uses) :
                                                IsReg(k)})]
        wrongIns == /\ P.MIs[cons].op = "PseudoInsert"
                    /\ P.MIs[cons].defs[1] # reg
        id == Len(P.MIs) + 1
        lanewrite == [Instr("INSERT", <<reg>>, <<reg>>, FALSE, <<FALSE>>,
                            FALSE) EXCEPT !.slot = P.MIs[mi].slot - 1]
        Materialized == [P EXCEPT !.MIs = Append(@, lanewrite),
                                  !.ids = BundleInsert(@, mi, id),
                                  !.ins = Append(@, id)]
    IN  IF \/ P.MIs[mi].defs = <<>> \/ isBranch(P.MIs[mi])
           \/ P.MIs[mi].dkill \/ P.MIs[mi].defs[1] = X0
        THEN P
        ELSE IF cons = 0 THEN P
        ELSE IF consKill THEN P
        ELSE IF wrongIns
        THEN NewPacket(P, reg, P.MIs[cons].defs[1], P.MIs[cons].slot)
        ELSE Materialized

\* fixMaterializedReg placing the lane-write one slot above the producer
fixMaterializedRegSlotAbove(P, mi) ==
    LET reg == P.MIs[mi].defs[1]
        Uses(a) == reg \in Range(P.MIs[a].uses)
        BrUses(a) == isBranch(P.MIs[a]) /\ Uses(a)
        foundIns == FindIf(P.ins, Uses)
        foundBr == FindIf(P.ops, BrUses)
        cons == IF foundIns # 0 THEN foundIns ELSE foundBr
        IsReg(k) == P.MIs[cons].uses[k] = reg
        consKill == P.MIs[cons].ukill[MinOf({k \in 1..Len(P.MIs[cons].uses) :
                                                IsReg(k)})]
        wrongIns == /\ P.MIs[cons].op = "PseudoInsert"
                    /\ P.MIs[cons].defs[1] # reg
        id == Len(P.MIs) + 1
        lanewrite == [Instr("INSERT", <<reg>>, <<reg>>, FALSE, <<FALSE>>,
                            FALSE) EXCEPT !.slot = P.MIs[mi].slot + 1]
        Materialized == [P EXCEPT !.MIs = Append(@, lanewrite),
                                  !.ids = BundleInsert(@, mi, id),
                                  !.ins = Append(@, id)]
    IN  IF \/ P.MIs[mi].defs = <<>> \/ isBranch(P.MIs[mi])
           \/ P.MIs[mi].dkill \/ P.MIs[mi].defs[1] = X0
        THEN P
        ELSE IF cons = 0 THEN Materialized
        ELSE IF consKill THEN P
        ELSE IF wrongIns
        THEN NewPacket(P, reg, P.MIs[cons].defs[1], P.MIs[cons].slot)
        ELSE Materialized

\* fixMaterializedReg that ignores the kill mark of the consumer's operand
fixMaterializedRegKilledToo(P, mi) ==
    LET reg == P.MIs[mi].defs[1]
        Uses(a) == reg \in Range(P.MIs[a].uses)
        BrUses(a) == isBranch(P.MIs[a]) /\ Uses(a)
        foundIns == FindIf(P.ins, Uses)
        foundBr == FindIf(P.ops, BrUses)
        cons == IF foundIns # 0 THEN foundIns ELSE foundBr
        wrongIns == /\ P.MIs[cons].op = "PseudoInsert"
                    /\ P.MIs[cons].defs[1] # reg
        id == Len(P.MIs) + 1
        lanewrite == [Instr("INSERT", <<reg>>, <<reg>>, FALSE, <<FALSE>>,
                            FALSE) EXCEPT !.slot = P.MIs[mi].slot - 1]
        Materialized == [P EXCEPT !.MIs = Append(@, lanewrite),
                                  !.ids = BundleInsert(@, mi, id),
                                  !.ins = Append(@, id)]
    IN  IF \/ P.MIs[mi].defs = <<>> \/ isBranch(P.MIs[mi])
           \/ P.MIs[mi].dkill \/ P.MIs[mi].defs[1] = X0
        THEN P
        ELSE IF cons = 0 THEN Materialized
        ELSE IF wrongIns
        THEN NewPacket(P, reg, P.MIs[cons].defs[1], P.MIs[cons].slot)
        ELSE Materialized

\* fixMaterializedReg followed by lines 421-451 of its caller
fixMaterializedReg(P, mi) ==
    LET reg == P.MIs[mi].defs[1]
        Uses(a) == reg \in Range(P.MIs[a].uses)
        BrUses(a) == isBranch(P.MIs[a]) /\ Uses(a)
        foundIns == FindIf(P.ins, Uses)
        foundBr == FindIf(P.ops, BrUses)
        cons == IF foundIns # 0 THEN foundIns ELSE foundBr
        IsReg(k) == P.MIs[cons].uses[k] = reg
        consKill == P.MIs[cons].ukill[MinOf({k \in 1..Len(P.MIs[cons].uses) :
                                                IsReg(k)})]
        wrongIns == /\ P.MIs[cons].op = "PseudoInsert"
                    /\ P.MIs[cons].defs[1] # reg
        id == Len(P.MIs) + 1
        lanewrite == [Instr("INSERT", <<reg>>, <<reg>>, FALSE, <<FALSE>>,
                            FALSE) EXCEPT !.slot = P.MIs[mi].slot - 1]
        Materialized == [P EXCEPT !.MIs = Append(@, lanewrite),
                                  !.ids = BundleInsert(@, mi, id),
                                  !.ins = Append(@, id)]
    IN  IF \/ P.MIs[mi].defs = <<>> \/ isBranch(P.MIs[mi])
           \/ P.MIs[mi].dkill \/ P.MIs[mi].defs[1] = X0
        THEN P
        ELSE IF cons = 0 THEN Materialized
        ELSE IF consKill THEN P
        ELSE IF wrongIns
        THEN NewPacket(P, reg, P.MIs[cons].defs[1], P.MIs[cons].slot)
        ELSE Materialized

\* the loop body of fixBranchOperandIndexes naming the branch's own lane
BranchOperandOwnSlot(P, br, k) ==
    LET reg == P.MIs[br].uses[k]
        Defines(a) == reg \in Range(P.MIs[a].defs)
        found == FindIf(P.ops, Defines)
    IN  IF found = 0 THEN Fatal(P, "BRANCH NOT WITH CONSUMER OPS!!!!")
        ELSE [P EXCEPT !.MIs[br].uses[k] = X0 + P.MIs[br].slot]

\* fixBranchOperandIndexes, the loop body for use operand k of the branch
BranchOperand(P, br, k) ==
    LET reg == P.MIs[br].uses[k]
        Defines(a) == reg \in Range(P.MIs[a].defs)
        found == FindIf(P.ops, Defines)
    IN  IF found = 0 THEN Fatal(P, "BRANCH NOT WITH CONSUMER OPS!!!!")
        ELSE [P EXCEPT !.MIs[br].uses[k] = X0 + P.MIs[found].slot]

RECURSIVE fixBranchOperandIndexes(_, _, _)
fixBranchOperandIndexes(P, br, k) ==
    IF k > Len(P.MIs[br].uses) \/ P.fatal # "" THEN P
    ELSE fixBranchOperandIndexes(BranchOperand(P, br, k), br, k + 1)

\* the five loops of runOnMachineFunction over one bundle
RECURSIVE PPInserts(_, _)
PPInserts(P, n) ==
    IF n > Len(P.ins) \/ P.fatal # "" THEN P
    ELSE PPInserts(addOpForInsert(P, P.ins[n]), n + 1)

RECURSIVE PPExtracts(_, _)
PPExtracts(P, n) ==
    IF n > Len(P.ops) \/ P.fatal # "" THEN P
    ELSE IF P.MIs[P.ops[n]].op \in NoExtIns \/ isBranch(P.MIs[P.ops[n]])
    THEN PPExtracts(P, n + 1)
    ELSE PPExtracts(addExtractForOp(P, P.ops[n], 1), n + 1)

RECURSIVE PPDangling(_, _)
PPDangling(P, n) ==
    IF n > Len(P.exts) \/ P.fatal # "" THEN P
    ELSE IF P.MIs[P.exts[n]].slot # NoSlot THEN PPDangling(P, n + 1)
    ELSE PPDangling(fixDanglingExt(P, P.exts[n]), n + 1)

RECURSIVE PPMaterialize(_, _)
PPMaterialize(P, n) ==
    IF n > Len(P.ops) \/ P.fatal # "" THEN P
    ELSE IF P.MIs[P.ops[n]].op \in NoExtIns THEN PPMaterialize(P, n + 1)
    ELSE PPMaterialize(fixMaterializedReg(P, P.ops[n]), n + 1)

RECURSIVE PPBranches(_, _)
PPBranches(P, n) ==
    IF n > Len(P.ops) \/ P.fatal # "" THEN P
    ELSE IF ~isBranch(P.MIs[P.ops[n]]) THEN PPBranches(P, n + 1)
    ELSE PPBranches(fixBranchOperandIndexes(P, P.ops[n], 1), n + 1)

PostProcBundle(ids) ==
    PPBranches(PPMaterialize(PPDangling(PPExtracts(PPInserts(PPWork(ids), 1),
                                                   1), 1), 1), 1)

\* runOnMachineFunction: the loop's round for the next bundle of the block,
\* in the first run of the pass ("postproc") and in a run over the first
\* run's output ("rerun")
PostProcPacket ==
    /\ pc \in {"postproc", "rerun"} /\ pp < Len(block)
    /\ LET P == PostProcBundle(block[pp + 1].ids)
       IN  /\ MIs' = P.MIs
           /\ block' = SubSeq(block, 1, pp)
                       \o <<Item(TRUE, P.ids)>> \o P.newB
                       \o SubSeq(block, pp + 2, Len(block))
           /\ IF P.fatal # ""
              THEN pc' = "ppfatal" /\ err' = P.fatal /\ pp' = pp
              ELSE pc' = pc /\ err' = err /\ pp' = pp + 1
    /\ UNCHANGED <<rm, CurrentPacketMIs, ResourceTracker, packets, cur, ep,
                   commitOK, splitLog>>

PostProcDone ==
    /\ pc = "postproc" /\ pp = Len(block)
    /\ pc' = "done"
    /\ UNCHANGED <<rm, MIs, block, CurrentPacketMIs, ResourceTracker, packets,
                   cur, ep, pp, commitOK, splitLog, err>>

\* runOnMachineFunction is run once more, on the function it has left
PostProcAgain ==
    /\ pc = "done"
    /\ pc' = "rerun"
    /\ pp' = 0
    /\ UNCHANGED <<rm, MIs, block, CurrentPacketMIs, ResourceTracker, packets,
                   cur, ep, commitOK, splitLog, err>>

PostProcAgainDone ==
    /\ pc = "rerun" /\ pp = Len(block)
    /\ pc' = "done2"
    /\ UNCHANGED <<rm, MIs, block, CurrentPacketMIs, ResourceTracker, packets,
                   cur, ep, pp, commitOK, splitLog, err>>

Next ==
    \/ PacketizeAdd
    \/ PacketizeClose
    \/ PacketizeEnd
    \/ EndPacketEmpty
    \/ EndPacketProbe
    \/ EndPacketFinalize
    \/ ResumeAdd
    \/ ResumeEnd
    \/ PostProcPacket
    \/ PostProcDone
    \/ PostProcAgain
    \/ PostProcAgainDone

Spec == Init /\ [][Next]_vars

\* Blocks with more than one form of lane-write pseudo-op: a producer of r1,
\* a lane-write into r1, a lane-write of r1 into r3, and a terminator.
MenuInserts ==
    { Instr("OP", <<1>>, <<2>>, FALSE, <<FALSE>>, TRUE),
      Instr("PseudoInsert", <<1>>, <<1, 2>>, FALSE, <<FALSE, FALSE>>, TRUE),
      Instr("PseudoInsert", <<3>>, <<3, 1>>, FALSE, <<FALSE, FALSE>>, TRUE),
      Instr("BR", <<>>, <<1, 1>>, FALSE, <<TRUE, TRUE>>, TRUE) }

InsertBlocks ==
    UNION { { b \in [1..n -> MenuInserts] :
                \A k \in 1..(n - 1) : isBranch(b[k]) => isBranch(b[k + 1]) }
            : n \in 0..MaxBlockLen }

InitInserts ==
    /\ rm \in ResourceModels
    /\ MIs \in InsertBlocks
    /\ block = [k \in 1..Len(MIs) |-> Item(FALSE, <<k>>)]
    /\ CurrentPacketMIs = <<>>
    /\ ResourceTracker = <<>>
    /\ packets = <<>>
    /\ cur = IF Len(MIs) = 0 THEN EndItr ELSE 1
    /\ pc = "loop"
    /\ ep = [MI |-> EndItr, ret |-> "end", push |-> FALSE, gen |-> <<>>,
             pushes |-> 0]
    /\ pp = 0
    /\ commitOK = TRUE
    /\ splitLog = <<>>
    /\ err = ""

SpecInserts == InitInserts /\ [][Next]_vars

\* a round of the first walk of the post-processor over the block: it ends
\* in the fatal error or moves on to the next bundle
WalkRound ==
    /\ pc = "postproc" /\ pp < Len(block)
    /\ \/ pc' = "ppfatal" /\ pp' = pp
       \/ pc' = pc /\ pp' = pp + 1

\* the first walk is through the block and the pass returns
WalkEnd ==
    /\ pc = "postproc" /\ pp = Len(block)
    /\ pc' = "done" /\ pp' = pp

\* the post-processor runs on: its walk takes the next round when there is
\* one, and returns when there is none
SpecInsertsFair ==
    SpecInserts /\ WF_<<pc, pp>>(WalkRound) /\ WF_<<pc, pp>>(WalkEnd)

\* ================================================================ claims
IsPseudo(mi) == mi.op \in {"EXTRACT", "PseudoInsert", "INSERT"}

IsOrdinary(mi) == ~IsPseudo(mi) /\ ~isBranch(mi)

Slots(ids) == [k \in 1..Len(ids) |-> MIs[ids[k]].slot]

\* C1: once the block is packetized and post-processed, the instructions of
\* every packet carry pairwise distinct slot indices, all of them in [0, N).
C1_SlotsDistinctInRange ==
    pc = "done" =>
      \A k \in 1..Len(block) :
        LET sl == Slots(block[k].ids) IN
          /\ \A a \in 1..Len(sl) : 0 <= sl[a] /\ sl[a] < rm.N
          /\ \A a, b \in 1..Len(sl) : a # b => sl[a] # sl[b]

\* C2 as stated: no two members of a finalized packet are joined by a Data,
\* Output or Order edge.
C2_NoHazardInPacket ==
    \A p \in 1..Len(packets) :
      \A a, b \in 1..Len(packets[p]) :
        DepKinds(MIs, packets[p][a], packets[p][b]) \cap Hazards = {}

\* C2 amended: in a finalized packet no Data, Output or Order edge runs
\* from a member that is not a lane-crossing pseudo-op to a member that is
\* neither a lane-crossing pseudo-op nor a control-transfer instruction.
C2_NoHazardBetweenOrdinary ==
    \A p \in 1..Len(packets) :
      \A a, b \in 1..Len(packets[p]) :
        LET J == packets[p][a]
            I == packets[p][b]
        IN  (~IsPseudo(MIs[J]) /\ IsOrdinary(MIs[I]))
              => DepKinds(MIs, J, I) \cap Hazards = {}

\* a finalized packet holds two ordinary instructions joined by an Anti
\* edge, and an earlier packet was closed because of a hazard
C2_Witness ==
    /\ Len(packets) >= 2
    /\ \E a, b \in 1..Len(packets[2]) :
          /\ IsOrdinary(MIs[packets[2][a]]) /\ IsOrdinary(MIs[packets[2][b]])
          /\ "Anti" \in DepKinds(MIs, packets[2][a], packets[2][b])
    /\ \E a \in 1..Len(packets[1]) : \E b \in 1..Len(packets[2]) :
          DepKinds(MIs, packets[1][a], packets[2][b]) \cap Hazards # {}

\* C3: every register operand of a control-transfer instruction of a
\* finalized packet has a producer in that packet, and the finalizer's
\* "No generating instr found" error is never raised.
C3_BranchOperandsProduced ==
    /\ err # "No generating instr found"
    /\ \A p \in 1..Len(packets) :
         \A a \in 1..Len(packets[p]) :
           isBranch(MIs[packets[p][a]]) =>
             \A k \in 1..Len(MIs[packets[p][a]].areg) :
               HasProducer(MIs, packets[p], packets[p][a],
                           MIs[packets[p][a]].areg[k])

\* C4: when the closing branch is pushed, the close ends with two packets:
\* the first holds neither the branch nor any synthesized bypass, and the
\* branch and all its bypasses are in the packet right behind it.  Stated
\* for the closes that ran to their end.
C4_SplitRelocatesBranchAndBypasses ==
    pc \notin {"endPacket", "finalize", "fatal"} =>
      \A n \in 1..Len(splitLog) :
        LET s == splitLog[n]
            moved == Range(s.gen) \cup {s.br}
        IN  \E k \in 1..(Len(block) - 1) :
              /\ block[k].b /\ block[k + 1].b
              /\ Range(packets[s.first]) \subseteq Range(block[k].ids)
              /\ Range(block[k].ids) \cap moved = {}
              /\ moved \subseteq Range(block[k + 1].ids)

\* C5: a close that pushes the branch does not die in the re-split: the
\* recursion of endPacket ends in a packet whose bypass probes all succeed.
C5_ResplitEndsInFittingPacket ==
    ~(/\ pc = "fatal"
      /\ ep.push \/ ep.pushes > 0
      /\ err \in {"no packet instrs in the basic block?",
                  "empty packet due to pushing a branch"})

\* C6: the branch is pushed at most once per close: closing the trailing
\* packet never answers "push" again.
C6_AtMostOneResplit ==
    ~(pc = "finalize" /\ ep.push /\ ep.pushes >= 1)

\* C7: every reserveResources on the real automaton is made in a state in
\* which canReserveResources holds for the instruction.
C7_CommitOnlyWhenItFits == commitOK

\* C8: insertBypassOps leaves the real automaton's reservations and the
\* current packet's membership exactly as they were.
C8_ProbeLeavesRealStateAlone ==
    [][(pc = "endPacket" /\ pc' = "finalize")
         => /\ ResourceTracker' = ResourceTracker
            /\ CurrentPacketMIs' = CurrentPacketMIs]_vars

\* insertBypassOps has reserved one bypass on its clone and then failed to
\* fit the next one
C8_Witness ==
    pc = "finalize" /\ ep.push /\ Len(ep.gen) >= 2 /\ ResourceTracker # <<>>

\* C9: whenever endPacket has returned, the current packet is empty and the
\* automaton holds no reservation.
C9_EmptyAfterEndPacket ==
    pc = "ret" => CurrentPacketMIs = <<>> /\ ResourceTracker = <<>>

\* endPacket has returned from a close that re-split the packet
C9_Witness == pc = "ret" /\ splitLog # <<>> /\ Len(packets) >= 2

\* the instruction at position a of a post-processed bundle has a result
\* nobody in the bundle reads and no lane-write in the bundle writes
Unmaterialized(ids, a) ==
    LET reg == MIs[ids[a]].defs[1] IN
      /\ ~MIs[ids[a]].dkill
      /\ ~\E b \in 1..Len(ids) :
            b # a /\ MIs[ids[b]].op # "INSERT"
                  /\ reg \in Range(MIs[ids[b]].areg)
      /\ ~\E b \in 1..Len(ids) :
            /\ MIs[ids[b]].op \in {"INSERT", "PseudoInsert"}
            /\ MIs[ids[b]].defs[1] = reg

\* C10 as stated: after a packet is post-processed, each of its ordinary
\* instructions whose result is not killed and has no consumer in the
\* packet has a lane-write for that register in the packet.
C10_LiveResultMaterialized ==
    \A k \in 1..pp :
      \A a \in 1..Len(block[k].ids) :
        IsOrdinary(MIs[block[k].ids[a]]) => ~Unmaterialized(block[k].ids, a)

\* C10 amended: the same for every ordinary instruction that is not an
\* OUTPUTHEADER, OUTPUTMETA, INPUT_EXTRACT or MATCH and whose result
\* register is not X0.
C10_LiveResultMaterializedAmended ==
    \A k \in 1..pp :
      \A a \in 1..Len(block[k].ids) :
        LET mi == MIs[block[k].ids[a]] IN
          (IsOrdinary(mi) /\ mi.op \notin NoExtIns /\ mi.defs[1] # X0)
            => ~Unmaterialized(block[k].ids, a)

\* a post-processed packet holds an ordinary instruction without consumer
\* there and the INSERT synthesized for its result
C10_Witness ==
    \E k \in 1..pp :
      \E a, b \in 1..Len(block[k].ids) :
        LET mi == MIs[block[k].ids[a]] IN
          /\ IsOrdinary(mi) /\ mi.su /\ ~mi.dkill /\ mi.defs[1] # X0
          /\ ~\E c \in 1..Len(block[k].ids) :
                c # a /\ MIs[block[k].ids[c]].op # "INSERT"
                      /\ mi.defs[1] \in Range(MIs[block[k].ids[c]].areg)
          /\ MIs[block[k].ids[b]].op = "INSERT"
          /\ MIs[block[k].ids[b]].defs[1] = mi.defs[1]

\* C11: a run of the post-processor over the output of its first run adds no
\* instruction (no extract, insert or bypass), adds no packet and raises no
\* fatal error.
C11_PostProcIdempotent ==
    [][pc = "rerun" => /\ Len(MIs') = Len(MIs)
                       /\ Len(block') = Len(block)
                       /\ pc' # "ppfatal"]_vars

\* an instruction of the block as it entered the packetizer whose result no
\* later instruction of the block reads
NeverRead(id) == MIs[id].su /\ DataSuccs(MIs, id) = <<>>

\* the packet ids holds a synthesized lane-write of reg at slot s
HasLaneWrite(ids, reg, s) ==
    \E b \in 1..Len(ids) :
        /\ MIs[ids[b]].op = "INSERT"
        /\ MIs[ids[b]].defs[1] = reg
        /\ MIs[ids[b]].slot = s

InsertReads(ids, reg) ==
    \E b \in 1..Len(ids) :
        /\ MIs[ids[b]].op = "PseudoInsert"
        /\ reg \in Range(MIs[ids[b]].areg)

BypassesFor(pkt, reg) ==
    {n \in 1..Len(pkt) : /\ MIs[pkt[n]].op = "ADDI" /\ ~MIs[pkt[n]].su
                         /\ MIs[pkt[n]].defs[1] = reg}

\* C13: in a finalized packet that holds a control-transfer instruction,
\* every register the instruction uses and no instruction the block came
\* with defines in the packet has exactly one synthesized identity-bypass
\* among the members, at a slot no other member has.
C13_OneBypassPerRegister ==
    \A p \in 1..Len(packets) :
      \A a \in 1..Len(packets[p]) :
        isBranch(MIs[packets[p][a]]) =>
          \A reg \in Range(MIs[packets[p][a]].areg) :
            (~\E n \in 1..Len(packets[p]) :
                 /\ MIs[packets[p][n]].su
                 /\ reg \in Range(MIs[packets[p][n]].defs))
              => /\ Cardinality(BypassesFor(packets[p], reg)) = 1
                 /\ \A b \in BypassesFor(packets[p], reg) :
                      \A n \in 1..Len(packets[p]) :
                        n # b => MIs[packets[p][n]].slot
                                   # MIs[packets[p][b]].slot

\* every register operand of the branch closing the current packet is
\* defined by another member that is not an EXTRACT
AllOperandsProduced ==
    LET br == CurrentPacketMIs[Len(CurrentPacketMIs)] IN
      \A reg \in Range(MIs[br].uses) :
        \E n \in 1..Len(CurrentPacketMIs) :
            /\ CurrentPacketMIs[n] # br
            /\ MIs[CurrentPacketMIs[n]].op # "EXTRACT"
            /\ reg \in Range(MIs[CurrentPacketMIs[n]].defs)

\* C14: when every register operand of the closing branch is defined by a
\* non-extract member of the packet, insertBypassOps creates no instruction
\* and does not ask for the branch to be pushed.
C14_NoBypassWhenProduced ==
    [][(pc = "endPacket" /\ pc' = "finalize" /\ AllOperandsProduced)
         => /\ ep'.gen = <<>> /\ ~ep'.push
            /\ MIs' = MIs /\ block' = block]_vars

\* insertBypassOps has answered for a branch with register operands, all of
\* them produced in the packet by instructions the block came with
C14_Witness ==
    /\ pc = "finalize" /\ ep.gen = <<>> /\ ~ep.push
    /\ MIs[CurrentPacketMIs[Len(CurrentPacketMIs)]].uses # <<>>
    /\ AllOperandsProduced
    /\ \A n \in 1..Len(CurrentPacketMIs) : MIs[CurrentPacketMIs[n]].su

\* operand k of the branch br names the lane-alias register of the slot of
\* an instruction of the packet ids that defines the register the operand
\* named when the branch was created
NamesProducerLane(ids, br, k) ==
    \E q \in 1..Len(ids) :
        /\ MIs[br].areg[k] \in Range(MIs[ids[q]].defs)
        /\ MIs[br].uses[k] = X0 + MIs[ids[q]].slot

\* C15: once a packet is post-processed, every register operand of every
\* control-transfer instruction in it names the lane-alias register X0+k,
\* k being the slot of an instruction of the packet that produces the
\* operand's original register.
C15_BranchOperandsNameProducerLane ==
    pc \in {"postproc", "done"} =>
      \A n \in 1..pp :
        \A a \in 1..Len(block[n].ids) :
          isBranch(MIs[block[n].ids[a]]) =>
            \A k \in 1..Len(MIs[block[n].ids[a]].uses) :
              NamesProducerLane(block[n].ids, block[n].ids[a], k)

\* the pass is over and a branch operand was rewritten from its register to
\* the lane of a producer the block came with
C15_Witness ==
    /\ pc = "done"
    /\ \E n \in 1..Len(block) :
         \E a, q \in 1..Len(block[n].ids) :
           LET br == MIs[block[n].ids[a]]
               pr == MIs[block[n].ids[q]]
           IN  /\ isBranch(br) /\ pr.su /\ br.uses # <<>>
               /\ br.areg[1] \in Range(pr.defs)
               /\ br.uses[1] = X0 + pr.slot
               /\ br.uses[1] # br.areg[1]

\* endPacket is entered with a packet that has no members
EmptyOnEntry == pc = "endPacket" /\ CurrentPacketMIs = <<>>

\* the packet's only member is the branch that is about to be popped, so
\* the packet is empty when the close comes to bundle it
EmptyAfterPop == pc = "finalize" /\ ep.push /\ Len(CurrentPacketMIs) = 1

Bundles == LET IsBundle(x) == x.b IN SelectSeq(block, IsBundle)

\* C17: while the block is packetized, the issue groups marked in it are
\* the packets finalized so far, in order, and each group holds exactly the
\* members of its packet.
C17_GroupIsPacket ==
    pc \in {"loop", "endPacket", "finalize", "ret"} =>
      /\ Len(Bundles) = Len(packets)
      /\ \A p \in 1..Len(packets) :
            p <= Len(Bundles) => Range(Bundles[p].ids) = Range(packets[p])

\* the registers an instruction names
Regs(mi) == Range(mi.defs) \cup Range(mi.areg)

\* the block came with exactly two instructions, which share no register
\* and find room in one packet together
TwoIndependent ==
    /\ Cardinality({i \in 1..Len(MIs) : MIs[i].su}) = 2
    /\ Regs(MIs[1]) \cap Regs(MIs[2]) = {}
    /\ canReserveResources(reserveResources(<<>>, MIs[1]), MIs[2])

\* the packetizer has made one packet of the two, at slots 0 and 1
OnePacketSlots01 ==
    /\ pc # "fatal"
    /\ pc \in {"postproc", "done"} =>
          /\ Len(packets) = 1 /\ Range(packets[1]) = {1, 2}
          /\ Len(packets[1]) = 2
          /\ {MIs[1].slot, MIs[2].slot} = {0, 1}

FlatBlock == Flatten(block, 1, Len(block))

\* With the instructions outside K dropped from the flattened block, the
\* instructions of K stand in the order they came in, each names the
\* registers it named then, and the producer-consumer pairs derived anew
\* are the Data edges of the graph built before packetization.
RoundTrip(K) ==
    LET InK(id) == id \in K
        rem == SelectSeq(FlatBlock, InK)
    IN  /\ rem = SortedSeq(K)
        /\ \A id \in K : MIs[id].uses = MIs[id].areg
        /\ \A x, y \in 1..Len(rem) :
              x < y =>
                ((Range(MIs[rem[x]].defs) \cap Range(MIs[rem[y]].uses) # {})
                   <=> "Data" \in DepKinds(MIs, rem[x], rem[y]))

\* the instructions the block came with that are not lane-crossing
\* pseudo-ops
NonPseudo == {id \in 1..Len(MIs) : MIs[id].su /\ ~IsPseudo(MIs[id])}

NoBranchWithBlocking ==
    \A p \in 1..Len(packets) :
      \A a, b \in 1..Len(packets[p]) :
        ~(isBranch(MIs[packets[p][a]]) /\ MIs[packets[p][b]].op \in Blocking)

\* the candidate is a control-transfer instruction the automaton has room for
BranchCandidate ==
    /\ pc = "loop" /\ cur # EndItr /\ isBranch(MIs[cur])
    /\ canReserveResources(ResourceTracker, MIs[cur])

\* C21 as stated: no finalized packet holds a control-transfer instruction
\* together with an instruction of a blocking category, and a
\* control-transfer candidate joins a packet without blocking members only
\* if no Data, Output or Order edge runs from a member to it.
C21_BranchRule ==
    /\ NoBranchWithBlocking
    /\ (pc = "loop" /\ cur # EndItr /\ isBranch(MIs[cur])) =>
         \A n \in 1..Len(CurrentPacketMIs) :
           (/\ MIs[CurrentPacketMIs[n]].op \notin Blocking
            /\ isLegalToPacketizeTogether(MIs, cur, CurrentPacketMIs[n]))
             => DepKinds(MIs, CurrentPacketMIs[n], cur) \cap Hazards = {}

\* C21 amended: no finalized packet holds a control-transfer instruction
\* together with an instruction of a blocking category, and a
\* control-transfer candidate the automaton has room for closes the packet
\* in progress exactly when that packet has a blocking member, whether or
\* not a hazard edge runs from a member to the candidate.
C21_BranchRuleAmended ==
    /\ [](NoBranchWithBlocking)
    /\ [][BranchCandidate
            => (pc' = "endPacket"
                  <=> \E n \in 1..Len(CurrentPacketMIs) :
                         MIs[CurrentPacketMIs[n]].op \in Blocking)]_vars

\* a blocking instruction was closed off into a packet of its own kind and a
\* later finalized packet holds a branch with a member that feeds it
C21_Witness ==
    /\ \E p \in 1..Len(packets) : \E a \in 1..Len(packets[p]) :
          MIs[packets[p][a]].op \in Blocking
    /\ \E p \in 1..Len(packets) : \E a, b \in 1..Len(packets[p]) :
          /\ isBranch(MIs[packets[p][b]])
          /\ "Data" \in DepKinds(MIs, packets[p][a], packets[p][b])

\* the members of the packet a close has just finalized that are not
\* lane-crossing pseudo-ops carry as slot the lane of the reservation the
\* automaton made for them
NewPacketAligned ==
    LET pk == packets'[Len(packets')] IN
      \A a \in 1..Len(pk) :
        MIs'[pk[a]].op \notin {"EXTRACT", "PseudoInsert"}
          => MIs'[pk[a]].slot = MIs'[pk[a]].lane

\* C22: when a packet is finalized, every member that is not a
\* lane-crossing pseudo-op, instructions the block came with and
\* synthesized bypasses alike, is given as slot the lane of the reservation
\* the automaton made for that same instruction; also when the closing
\* branch was popped from the member list.
C22_SlotIsGrantedLane ==
    [][Len(packets') = Len(packets) + 1 => NewPacketAligned]_vars

\* the member list the finalizer's slot loop runs over
LoopMembers ==
    IF pc = "finalize" /\ ep.push
    THEN SubSeq(CurrentPacketMIs, 1, Len(CurrentPacketMIs) - 1)
    ELSE CurrentPacketMIs

\* the members the loop looks up predecessors and successors for
Relocators ==
    {n \in 1..Len(LoopMembers) :
        /\ MIs[LoopMembers[n]].op \notin {"EXTRACT", "PseudoInsert"}
        /\ MIs[LoopMembers[n]].su}

\* the lane-read Data predecessors of m outside the member list, in the
\* order the loop meets them
ReadsFor(m) ==
    LET Out(d) == MIs[d].op = "EXTRACT" /\ ~InSeq(d, LoopMembers)
    IN  SelectSeq(DataPreds(MIs, m), Out)

\* the lane-write Data successors of m outside the member list
WritesFor(m) ==
    LET Out(d) == MIs[d].op = "PseudoInsert" /\ ~InSeq(d, LoopMembers)
    IN  SelectSeq(DataSuccs(MIs, m), Out)

FlatOf(blk) == Flatten(blk, 1, Len(blk))

PosIn(s, x) == CHOOSE k \in 1..Len(s) : s[k] = x

\* a close has run to its end and finalized a packet
ClosedOne == Len(packets') = Len(packets) + 1

\* C23 as stated: when the finalizer closes a packet, every lane-read
\* pseudo-op outside the member list that is a Data predecessor of a member
\* other than a control-transfer instruction stands immediately before that
\* member with slot = the member's slot + 1, and every lane-write pseudo-op
\* outside the list that is a Data successor of a member stands immediately
\* after it with slot = the member's slot - 1, each of them when there are
\* several.
C23_RelocatedNextToMember ==
    [][ClosedOne =>
         \A n \in Relocators :
           LET m == LoopMembers[n]
               fb == FlatOf(block')
           IN  /\ ~isBranch(MIs[m]) =>
                     \A k \in 1..Len(ReadsFor(m)) :
                       /\ PosIn(fb, ReadsFor(m)[k]) + 1 = PosIn(fb, m)
                       /\ MIs'[ReadsFor(m)[k]].slot = MIs'[m].slot + 1
               /\ \A k \in 1..Len(WritesFor(m)) :
                       /\ PosIn(fb, WritesFor(m)[k]) = PosIn(fb, m) + 1
                       /\ MIs'[WritesFor(m)[k]].slot = MIs'[m].slot - 1]_vars

\* the lane-read members of the packet being closed that the block came
\* with and that have no Data successor in it
LiveOuts ==
    {n \in 1..Len(LoopMembers) :
        /\ MIs[LoopMembers[n]].op = "EXTRACT" /\ MIs[LoopMembers[n]].su
        /\ DataSuccs(MIs, LoopMembers[n]) = <<>>}

\* the places in the packet just finalized of the bypasses this close built
\* for reg
NewBypasses(reg) ==
    LET pk == packets'[Len(packets')] IN
      {b \in 1..Len(pk) : /\ pk[b] > Len(MIs)
                           /\ MIs'[pk[b]].op = "ADDI"
                           /\ MIs'[pk[b]].defs[1] = reg}

\* C24: when a packet is finalized, each lane-read member without a Data
\* successor in the block has got exactly one identity-bypass for its
\* result register in the packet, whose slot is the lane of the bypass's own
\* reservation and the slot of no other member.
C24_LiveOutBypass ==
    [][ClosedOne =>
         \A n \in LiveOuts :
           LET B == NewBypasses(MIs[LoopMembers[n]].defs[1])
               pk == packets'[Len(packets')]
           IN  /\ Cardinality(B) = 1
               /\ \A b \in B :
                     /\ MIs'[pk[b]].slot = MIs'[pk[b]].lane
                     /\ \A a \in 1..Len(pk) :
                           a # b => MIs'[pk[a]].slot # MIs'[pk[b]].slot]_vars

\* the close's state when the slot loop is over and the generated
\* instructions have joined the member list, every read inside the record
AfterSlots ==
    AddGenerated(SlotLoop(PopOrCommit(Work, pc = "finalize" /\ ep.push,
                                     IF pc = "finalize" THEN ep.gen
                                     ELSE <<>>), 1))

\* the indices (from 0) at which the fallback loop meets, for the first
\* time, a lane-write pseudo-op without a slot whose reservation record is
\* there to be read
Unslotted(S) ==
    {i \in 0..(Len(S.pkt) - 1) :
        /\ S.MIs[S.pkt[i + 1]].op = "PseudoInsert"
        /\ S.MIs[S.pkt[i + 1]].slot = NoSlot
        /\ \A j \in 1..i : S.pkt[j] # S.pkt[i + 1]
        /\ i < Len(S.tr)}

\* a lane-write pseudo-op other than m is in the member list
OtherInsert(S, m) ==
    \E n \in 1..Len(S.pkt) :
        S.MIs[S.pkt[n]].op = "PseudoInsert" /\ S.pkt[n] # m

\* a member of the packet just finalized has slot s
Occupied(S, s) == \E n \in 1..Len(S.pkt) : MIs'[S.pkt[n]].slot = s

C26_FallbackSlotFreeAndInRange ==
    [][(ClosedOne /\ AfterSlots.fatal = "") =>
         \A i \in Unslotted(AfterSlots) :
           LET S == AfterSlots
               m == S.pkt[i + 1]
           IN  ~OtherInsert(S, m) =>
                 /\ 0 <= MIs'[m].slot /\ MIs'[m].slot < rm.N
                 /\ \A n \in 1..Len(S.pkt) :
                       S.pkt[n] # m => MIs'[S.pkt[n]].slot # MIs'[m].slot]_vars

\* PacketizeMIs adds the candidate to the packet, with or without the
\* pull-in
AddStep == pc \in {"loop", "ret"} /\ pc' \in {"loop", "fatal"}

\* C27: when the candidate is added, the pull-in moves a lane-crossing
\* pseudo-op and makes it a member only with a reservation the automaton
\* accepts; a pseudo-op the automaton has no room for stays where it is in
\* the block, is not made a member, leaves the reservations alone, and the
\* pass goes on.
C27_PullOnlyWhenAccepted ==
    [][AddStep =>
         /\ pc' # "fatal"
         /\ CurrentPacketMIs' = Append(CurrentPacketMIs, cur)
               => block' = block
         /\ Len(ResourceTracker') - Len(ResourceTracker)
               = Len(CurrentPacketMIs') - Len(CurrentPacketMIs)]_vars

\* the instructions the pull-in has made members along with the candidate
Pulled ==
    {d \in 1..Len(MIs) : /\ d # cur /\ ~InSeq(d, CurrentPacketMIs)
                          /\ InSeq(d, CurrentPacketMIs')}

\* C28: after a pull-in for the candidate I, a pulled lane-read producer of
\* I stands immediately before I in the block and a pulled lane-write
\* consumer of I immediately after I.
C28_PulledNextToInstruction ==
    [][(AddStep /\ pc' = "loop") =>
         \A d \in Pulled :
           LET fb == FlatOf(block') IN
             /\ MIs[d].op = "EXTRACT" => PosIn(fb, d) + 1 = PosIn(fb, cur)
             /\ MIs[d].op = "PseudoInsert"
                   => PosIn(fb, d) = PosIn(fb, cur) + 1]_vars

\* the issue group at place k of the block is in the block after the step,
\* with the same instructions
GroupKept(k) ==
    \E k2 \in 1..Len(block') :
        block'[k2].b /\ Range(block'[k2].ids) = Range(block[k].ids)

\* C29: while the block is packetized, a finalized packet keeps its
\* members: every issue group marked in the block is there, with the same
\* instructions, after each step of the packetizer, pull-in and finalizer
\* relocation included.
C29_FinalizedPacketsKeepMembers ==
    [][(pc \in {"loop", "endPacket", "finalize", "ret"}) =>
         \A k \in 1..Len(block) : block[k].b => GroupKept(k)]_vars

\* the post-processor's state for the bundle it visits next, when its loops
\* over the inserts and the operations are over
BeforeDangling ==
    PPExtracts(PPInserts(PPWork(block[pp + 1].ids), 1), 1)

\* the lane-reads of that bundle still without a slot that have a consumer
\* among its operations
Dangling(P) ==
    {n \in 1..Len(P.exts) :
        /\ P.MIs[P.exts[n]].slot = NoSlot
        /\ \E k \in 1..Len(P.ops) :
              P.MIs[P.exts[n]].defs[1] \in Range(P.MIs[P.ops[k]].uses)}

\* the slot of the first operation of the bundle that reads reg
ConsumerSlot(P, reg) ==
    LET Uses(a) == reg \in Range(P.MIs[a].uses)
    IN  P.MIs[FindIf(P.ops, Uses)].slot

\* an instruction of the bundle other than e has slot s
HeldByOther(P, e, s) ==
    \E k \in 1..Len(P.ids) : P.ids[k] # e /\ P.MIs[P.ids[k]].slot = s

\* C30: a lane-read pseudo-op that comes to fixDanglingExt gets the slot of
\* its consumer + 1 when no other instruction of the packet has that slot,
\* + 2 when + 1 is held and + 2 is not, and the pass stops in the fatal
\* error when both are held.
C30_DanglingExtractSlot ==
    [][(pc = "postproc" /\ pp < Len(block) /\ BeforeDangling.fatal = ""
        /\ Cardinality(Dangling(BeforeDangling)) = 1) =>
         \A n \in Dangling(BeforeDangling) :
           LET P == BeforeDangling
               e == P.exts[n]
               c == ConsumerSlot(P, P.MIs[e].defs[1])
           IN  IF ~HeldByOther(P, e, c + 1) THEN MIs'[e].slot = c + 1
               ELSE IF ~HeldByOther(P, e, c + 2) THEN MIs'[e].slot = c + 2
               ELSE /\ pc' = "ppfatal"
                    /\ err' = "no slot for required extract..."]_vars

\* the first run of the post-processor is about to visit a bundle
VisitsBundle == pc = "postproc" /\ pp < Len(block)

\* the materializing lane-writes the visit of the bundle synthesizes
NewLaneWrites ==
    {x \in (Len(MIs) + 1)..Len(MIs') : MIs'[x].op = "INSERT"}

\* the instruction a synthesized lane-write was made for: builder.insert
\* puts the lane-write right before it
MadeFor(x) ==
    block'[pp + 1].ids[PosIn(block'[pp + 1].ids, x) + 1]

\* the lane-write pseudo-ops and control-transfer instructions of the bundle
\* as the visit finds it that read reg
ReadersOf(reg) ==
    {c \in Range(block[pp + 1].ids) :
        /\ MIs[c].op = "PseudoInsert" \/ isBranch(MIs[c])
        /\ reg \in Range(MIs[c].uses)}

\* C31 as stated: the post-processor synthesizes a materializing lane-write
\* only for an ordinary instruction whose result is not marked killed, is
\* not X0 and is read by no lane-write pseudo-op and no control-transfer
\* instruction of the packet.
C31_MaterializeOnlyUnconsumed ==
    [][VisitsBundle =>
         \A x \in NewLaneWrites :
           LET mi == MIs'[MadeFor(x)] IN
             /\ IsOrdinary(mi) /\ ~mi.dkill /\ mi.defs[1] # X0
             /\ ReadersOf(mi.defs[1]) = {}]_vars

\* the record of instruction a during the visit: the one the visit finds,
\* or the one it builds
RecAt(a) == IF a <= Len(MIs) THEN MIs[a] ELSE MIs'[a]

\* the work list ins at the time the lane-write x is synthesized: the
\* lane-write pseudo-ops of the bundle, then the lane-writes made before x
InsBefore(x) ==
    LET IsIns(i) == MIs[i].op = "PseudoInsert"
        Made == {y \in NewLaneWrites : y < x}
    IN  SelectSeq(block[pp + 1].ids, IsIns)
        \o SelectSeq([k \in 1..(Len(MIs') - Len(MIs)) |-> Len(MIs) + k],
                     LAMBDA y : y \in Made)

\* the consumer fixMaterializedReg looks at for the lane-write x: the first
\* lane-write of ins that reads reg, else the first control-transfer
\* instruction of the bundle that reads it, 0 when there is none
ConsumerSeen(x, reg) ==
    LET Uses(a) == reg \in Range(RecAt(a).uses)
        BrUses(a) == isBranch(RecAt(a)) /\ Uses(a)
        foundIns == FindIf(InsBefore(x), Uses)
    IN  IF foundIns # 0 THEN foundIns
        ELSE FindIf(block[pp + 1].ids, BrUses)

\* the consumer c reads reg through an operand marked killed
KillsIt(c, reg) ==
    LET rec == RecAt(c)
    IN  rec.ukill[MinOf({k \in 1..Len(rec.uses) : rec.uses[k] = reg})]

\* C31 amended: a materializing lane-write is synthesized only for an
\* instruction that is not a pseudo-op, not a control-transfer instruction
\* and not an OUTPUTHEADER, OUTPUTMETA, INPUT_EXTRACT or MATCH, whose result
\* is not marked killed and not X0, and whose result the consumer seen (the
\* first lane-write of the packet that reads it, else the first
\* control-transfer instruction that reads it) does not read through an
\* operand marked killed; a consumer that reads it without the kill mark
\* does not prevent the lane-write, unless it is a lane-write pseudo-op that
\* writes another register.
C31_MaterializeOnlyLive ==
    [][VisitsBundle =>
         \A x \in NewLaneWrites :
           LET mi == MIs'[MadeFor(x)]
               reg == mi.defs[1]
               cons == ConsumerSeen(x, reg)
           IN  /\ IsOrdinary(mi) /\ mi.op \notin NoExtIns
               /\ ~mi.dkill /\ reg # X0
               /\ cons # 0 =>
                    /\ ~KillsIt(cons, reg)
                    /\ ~(RecAt(cons).op = "PseudoInsert"
                         /\ RecAt(cons).defs[1] # reg)]_vars

\* a visited packet holds a producer, a lane-write pseudo-op of its result
\* register that reads the result without the kill mark, and the
\* materializing lane-write synthesized for the producer
C31_Witness ==
    /\ pc = "postproc"
    /\ \E k \in 1..pp :
         \E a \in 1..(Len(block[k].ids) - 1), c \in 1..Len(block[k].ids) :
           LET lw == MIs[block[k].ids[a]]
               mi == MIs[block[k].ids[a + 1]]
               cons == MIs[block[k].ids[c]]
           IN  /\ lw.op = "INSERT" /\ IsOrdinary(mi) /\ mi.su
               /\ lw.defs[1] = mi.defs[1]
               /\ cons.op = "PseudoInsert" /\ cons.defs[1] = mi.defs[1]
               /\ \E u \in 1..Len(cons.uses) :
                    cons.uses[u] = mi.defs[1] /\ ~cons.ukill[u]

\* the instructions of the visited bundle the fourth loop of the pass calls
\* fixMaterializedReg for with a result that can be materialized
Producers ==
    {m \in Range(block'[pp + 1].ids) :
        /\ IsOrdinary(MIs'[m]) /\ MIs'[m].op \notin NoExtIns
        /\ ~MIs'[m].dkill /\ MIs'[m].defs[1] # X0}

\* the lane-write pseudo-ops of the bundle as the visit finds it that read
\* reg without the kill mark and write another register
Mismatching(reg) ==
    {c \in Range(block[pp + 1].ids) :
        /\ MIs[c].op = "PseudoInsert" /\ MIs[c].defs[1] # reg
        /\ \E u \in 1..Len(MIs[c].uses) :
             MIs[c].uses[u] = reg /\ ~MIs[c].ukill[u]}

\* the packets the visit creates behind the bundle
NewPackets == (pp + 2)..(pp + 1 + Len(block') - Len(block))

\* packet k is the chain for reg around slot s: a lane-write at s, an
\* identity-rewrite at s + 1 and a lane-read at s + 2, nothing else
IsChain(k, reg, s) ==
    /\ block'[k].b /\ Len(block'[k].ids) = 3
    /\ \E w, i, r \in Range(block'[k].ids) :
         /\ MIs'[w].op = "PseudoInsert" /\ MIs'[w].slot = s
         /\ MIs'[i].op = "ADDI" /\ MIs'[i].slot = s + 1
         /\ MIs'[r].op = "EXTRACT" /\ MIs'[r].slot = s + 2
         /\ MIs'[r].defs[1] = reg /\ MIs'[i].defs[1] = reg
         /\ MIs'[i].uses[1] = reg

\* a materializing lane-write was made for m
HasNewLaneWrite(m) == \E x \in NewLaneWrites : MadeFor(x) = m

\* C32 as stated: when a result that is not marked killed is read without
\* the kill mark by a lane-write pseudo-op of the packet that writes another
\* register, the visit adds no lane-write for it to the packet and creates
\* behind the packet a packet of exactly three instructions, lane-write at
\* s, identity-rewrite at s + 1 and lane-read at s + 2, s being the slot of
\* the mismatching lane-write.
C32_MismatchGetsChain ==
    [][(VisitsBundle /\ pc' = "postproc") =>
         \A m \in Producers :
           Mismatching(MIs'[m].defs[1]) # {} =>
             /\ ~HasNewLaneWrite(m)
             /\ \E c \in Mismatching(MIs'[m].defs[1]), k \in NewPackets :
                  IsChain(k, MIs'[m].defs[1], MIs[c].slot)]_vars

\* the bundle the walk visits next is a packet the pass built behind an
\* earlier bundle: only those hold a lane-write pseudo-op the scheduler
\* never saw
ChainNext ==
    \E c \in Range(block[pp + 1].ids) :
        MIs[c].op = "PseudoInsert" /\ ~MIs[c].su

\* C33: the walk of the post-processor visits the packets it builds behind a
\* bundle, the visit of such a packet adds no instruction and no packet and
\* raises no error, and the walk over the block comes to its end (a fatal
\* error ends the pass as well).
C33_PostProcTerminates ==
    /\ [][(VisitsBundle /\ ChainNext) =>
            /\ Len(MIs') = Len(MIs)
            /\ Len(block') = Len(block)
            /\ pp' = pp + 1 /\ pc' = "postproc"]_vars
    /\ (pc = "postproc") ~> (pc \in {"done", "ppfatal"})

\* the walk is over and went through a packet the pass built itself
C33_Witness ==
    /\ pc = "done"
    /\ \E k \in 1..Len(block) :
         \E c \in Range(block[k].ids) :
           MIs[c].op = "PseudoInsert" /\ ~MIs[c].su

\* the work list ops when the visit of the bundle is over: the operations
\* the visit finds, then the identity-bypasses it builds, in the order built
OpsAfter ==
    LET IsOp(i) == MIs[i].op \notin {"EXTRACT", "PseudoInsert"}
    IN  SelectSeq(block[pp + 1].ids, IsOp)
        \o SelectSeq([k \in 1..(Len(MIs') - Len(MIs)) |-> Len(MIs) + k],
                     LAMBDA y : MIs'[y].op = "ADDI")

\* the producer addOpForInsert finds for reg: the first operation of ops
\* that defines it, 0 when there is none
ProducerSeen(reg) ==
    LET Defines(a) == reg \in Range(MIs'[a].defs)
    IN  FindIf(OpsAfter, Defines)

\* the visit stopped in an assertion of addOpForInsert
InsertAssert ==
    /\ pc' = "ppfatal"
    /\ err' \in {"found the op but in the wrong slot...",
                 "insert reads and writes a different register."}

\* C34: when addOpForInsert is through with a lane-write pseudo-op at slot
\* s, the producer it finds for each operand from index 2 on is an ordinary
\* instruction of the packet at slot s + 1, an identity-bypass built for the
\* operand when the packet had no producer; a producer at another slot is
\* not accepted, the pass stops in the assertion.
C34_InsertOperandsProducedNextLane ==
    [][(VisitsBundle /\ ~InsertAssert) =>
         \A c \in Range(block[pp + 1].ids) :
           MIs[c].op = "PseudoInsert" =>
             \A u \in 2..Len(MIs[c].uses) :
               LET f == ProducerSeen(MIs[c].uses[u]) IN
                 /\ f # 0
                 /\ f \in Range(block'[pp + 1].ids)
                 /\ IsOrdinary(MIs'[f])
                 /\ MIs'[f].slot = MIs[c].slot + 1
                 /\ f > Len(MIs) => MIs'[f].uses = <<MIs[c].uses[u]>>]_vars

\* a visited packet holds a lane-write pseudo-op, a producer of its operand
\* that the packetizer put at the next slot, and no bypass for the operand
C34_Witness ==
    /\ pc = "postproc"
    /\ \E k \in 1..pp :
         \E c, m \in Range(block[k].ids) :
           /\ MIs[c].op = "PseudoInsert" /\ MIs[c].su
           /\ MIs[c].slot # NoSlot
           /\ MIs[m].op \in {"OP", "INPUT_EXTRACT"}
           /\ MIs[c].uses[2] \in Range(MIs[m].defs)
           /\ MIs[m].slot = MIs[c].slot + 1
           /\ ~\E b \in Range(block[k].ids) :
                 MIs[b].op = "ADDI" /\ MIs[b].defs = <<MIs[c].uses[2]>>

\* the bundle the visit finds was closed by endPacket with the packet's
\* control-transfer instruction in it
HoldsBranch ==
    /\ block[pp + 1].b
    /\ \E c \in Range(block[pp + 1].ids) : isBranch(MIs[c])

\* C35: in the visit of a packet that endPacket finalized,
\* fixBranchOperandIndexes finds a producer for every register operand of
\* every control-transfer instruction of the packet: the visit never stops
\* in the fatal error "BRANCH NOT WITH CONSUMER OPS".
C35_BranchProducersAgree ==
    [][(VisitsBundle /\ HoldsBranch) =>
         err' # "BRANCH NOT WITH CONSUMER OPS!!!!"]_vars

\* C36: no slot computation wraps: when the finalizer closes a packet, no
\* member it relocates a lane-write pseudo-op for (slot - 1) is in slot 0,
\* and no materializing lane-write of the post-processor (slot - 1) is left
\* with the value (unsigned)-1 of an unassigned slot.
C36_NoSlotUnderflow ==
    /\ [][ClosedOne =>
            \A n \in Relocators :
              WritesFor(LoopMembers[n]) # <<>>
                => MIs'[LoopMembers[n]].slot # 0]_vars
    /\ [](\A i \in 1..Len(MIs) : MIs[i].op = "INSERT" => MIs[i].slot # NoSlot)

\* C37: every lane-write pseudo-op of a packet has a slot when endPacket
\* has finalized the packet, and every lane-read pseudo-op of a packet has a
\* slot when the post-processor has finished.
C37_PseudoOpsSlotted ==
    /\ [][ClosedOne =>
            \A c \in Range(packets'[Len(packets')]) :
              MIs'[c].op = "PseudoInsert" => MIs'[c].slot # NoSlot]_vars
    /\ [](pc = "done" =>
            \A k \in 1..Len(block) :
              \A c \in Range(block[k].ids) :
                MIs[c].op = "EXTRACT" => MIs[c].slot # NoSlot)

\* packetization of the block is over, the post-processor has not started
PacketizationDone == pc = "postproc" /\ pp = 0

\* the bundles of the block that hold instruction i
BundlesOf(i) == {k \in 1..Len(block) : block[k].b /\ i \in Range(block[k].ids)}

\* the member lists (CurrentPacketMIs at finalization) that name instruction i
ListsOf(i) == {k \in 1..Len(packets) : i \in Range(packets[k])}

Occurrences(s, i) == Cardinality({n \in 1..Len(s) : s[n] = i})

\* the branches popped for a re-split and the bypasses synthesized for them
Resplit ==
    UNION {{splitLog[n].br} \cup Range(splitLog[n].gen) :
             n \in 1..Len(splitLog)}

====
